---- MODULE Spec2Model ----
(***************************************************************************)
(* A model of src/zid.py: the Zid value type (a chronologically ordered,   *)
(* unguessable text id), its three constructors (fresh, from text, from    *)
(* UUID) and its uuid accessor.                                            *)
(*                                                                         *)
(* Scale.  The source works with 62 symbols, 3 groups of 7 digits,         *)
(* 10^9 nanoseconds per second, 3652059 days and 128-bit UUIDs; its        *)
(* integers have up to 128 bits.  The model keeps every formula of the     *)
(* source and shrinks the numbers they start from: 3 symbols (one digit,   *)
(* one upper-case and one lower-case letter), GroupDigits digits per       *)
(* group, and the time and bit-offset scales named below.  Every derived   *)
(* constant (CARDINALITY, ZIDS_PER_NANO, ...) is computed from them by     *)
(* the source's own expression.                                            *)
(*                                                                         *)
(* Text is a sequence of one-character strings; Ord gives a character's    *)
(* code point.  An exception is a record [exc, msg, arg].                  *)
(***************************************************************************)
EXTENDS Integers, Sequences, FiniteSets, TLC

(***************************************************************************)
(* Scales of the model.                                                    *)
(***************************************************************************)
GroupDigits == 1            \* digits per group; 7 in the source (line 23)
NANOS_PER_SECOND == 2       \* 10 ** 9 in the source (line 32)
SECONDS_PER_DAY == 2        \* 60 * 60 * 24 in the source (line 31)
DAYS_PER_9_999_YEARS == 2   \* 3652059 in the source (line 44)
DAYS_BEFORE_EPOCH == 1      \* 719162 in the source (line 40)
UuidLowBits == 3            \* value bits below the marker; 78 in the source (line 21)
ClockOvershoot == 1         \* seconds past the supported range the clock may show
MaxZids == 2                \* constructions in a row by one process (SpecSeq)

(***************************************************************************)
(* Python's str and int primitives the source uses.                        *)
(***************************************************************************)
Min(a, b) == IF a < b THEN a ELSE b
Max(a, b) == IF a < b THEN b ELSE a

\* ord(c) for the characters of the model.
Ord(c) ==
  CASE c = " " -> 32
    [] c = "-" -> 45
    [] c = "0" -> 48
    [] c = "A" -> 65
    [] c = "_" -> 95
    [] c = "a" -> 97

\* A slice bound as Python normalises it for a sequence of length n.
SliceBound(i, n) == IF i < 0 THEN Max(i + n, 0) ELSE Min(i, n)

\* s[i:j], s[:j], s[i:]
Slice(s, i, j) ==
  LET a == SliceBound(i, Len(s))
      b == SliceBound(j, Len(s))
  IN  IF a >= b THEN << >> ELSE SubSeq(s, a + 1, b)
SliceTo(s, j) == Slice(s, 0, j)
SliceFrom(s, i) == Slice(s, i, Len(s))

RECURSIVE Reversed(_)
Reversed(s) == IF s = << >> THEN << >> ELSE Append(Reversed(Tail(s)), Head(s))

\* bin(v)[2:] for v >= 0
RECURSIVE Bin(_)
Bin(v) ==
  IF v < 2 THEN << IF v = 1 THEN "1" ELSE "0" >>
  ELSE Append(Bin(v \div 2), IF v % 2 = 1 THEN "1" ELSE "0")

\* s.zfill(width)
RECURSIVE Zfill(_, _)
Zfill(s, width) == IF Len(s) >= width THEN s ELSE Zfill(<< "0" >> \o s, width)

\* int(s, base=2) for a non-empty string of binary digits
RECURSIVE IntBase2(_)
IntBase2(s) ==
  IF s = << >> THEN 0
  ELSE 2 * IntBase2(SubSeq(s, 1, Len(s) - 1)) + (IF s[Len(s)] = "1" THEN 1 ELSE 0)

\* s.strip(): leading and trailing whitespace removed
RECURSIVE Lstrip(_)
Lstrip(s) == IF s # << >> /\ Head(s) = " " THEN Lstrip(Tail(s)) ELSE s
Strip(s) == Reversed(Lstrip(Reversed(Lstrip(s))))

\* alphabet.index(digit), 0-based; -1 stands for the ValueError it raises
RECURSIVE IndexFrom(_, _, _)
IndexFrom(alphabet, digit, k) ==
  IF k > Len(alphabet) THEN -1
  ELSE IF alphabet[k] = digit THEN k - 1
  ELSE IndexFrom(alphabet, digit, k + 1)
Index(alphabet, digit) == IndexFrom(alphabet, digit, 1)

(***************************************************************************)
(* Module constants, lines 18-48.                                          *)
(***************************************************************************)
ascii_letters == << "a", "A" >>     \* string.ascii_letters (lower case, then upper case): 'a', 'A'
digits == << "0" >>                 \* string.digits: '0'

ALPHANUMERIC_unsorted == ascii_letters \o digits
ALPHANUMERIC == SortSeq(ascii_letters \o digits, LAMBDA x, y : Ord(x) < Ord(y))

UUID_INDEX == 0 - UuidLowBits
UUID_BITS == << "1", "1" >>
SIZE3 == GroupDigits + 1
\* tuple(... for digit in range(digit, _SIZE3 * 3))
RECURSIVE DigitAlphabetsFrom(_)
DigitAlphabetsFrom(digit) ==
  IF digit >= SIZE3 * 3 THEN << >>
  ELSE << IF digit % SIZE3 # 0 THEN ALPHANUMERIC ELSE << "_" >> >>
         \o DigitAlphabetsFrom(digit + 1)
DIGIT_ALPHABETS == DigitAlphabetsFrom(1)

RECURSIVE ProductOfLens(_)
ProductOfLens(alphabets) ==
  IF alphabets = << >> THEN 1
  ELSE Len(Head(alphabets)) * ProductOfLens(Tail(alphabets))
CARDINALITY == ProductOfLens(DIGIT_ALPHABETS)

NANOS_PER_DAY == NANOS_PER_SECOND * SECONDS_PER_DAY
SECONDS_BEFORE_EPOCH == SECONDS_PER_DAY * DAYS_BEFORE_EPOCH
NANOS_PER_9_999_YEARS == NANOS_PER_DAY * DAYS_PER_9_999_YEARS
ZIDS_PER_NANO == (CARDINALITY \div NANOS_PER_9_999_YEARS) + 1

(***************************************************************************)
(* Values of the model.                                                    *)
(***************************************************************************)
NoError == [exc |-> "", msg |-> "", arg |-> << >>]
ValueError(msg, arg) == [exc |-> "ValueError", msg |-> msg, arg |-> arg]
NoDatetime == [seconds |-> 0, nanos |-> -1]
NoClock == [seconds |-> 0, nanos |-> -1]
NoSample == 0 - 1    \* no draw was made
NoUuid == 0 - 1      \* the accessor was not read

\* The constructor's argument: None, a str or a uuid.UUID.
NoneValue == [type |-> "NoneType", text |-> << >>, int |-> 0]
StrValue(text) == [type |-> "str", text |-> text, int |-> 0]
UuidValue(int) == [type |-> "UUID", text |-> << >>, int |-> int]

\* A uuid.UUID holds 128 bits, which is the width of the largest value
\* (126 bits) plus the two marker bits; the model's UUIDs are as wide as its
\* largest value plus two.
UuidIntBits == Len(Bin(CARDINALITY - 1)) + Len(UUID_BITS)
UuidInts == 0 .. (2 ^ UuidIntBits - 1)

\* str(uuid): the hexadecimal digits of its integer, most significant first.
HexDigits ==
  << "0", "1", "2", "3", "4", "5", "6", "7", "8", "9", "a", "b", "c", "d", "e", "f" >>
RECURSIVE Hex(_, _)
Hex(v, width) ==
  IF width = 0 THEN << >>
  ELSE Append(Hex(v \div 16, width - 1), HexDigits[(v % 16) + 1])

\* str(value) and `not value`
Str(value) ==
  IF value.type = "UUID" THEN Hex(value.int, (UuidIntBits + 3) \div 4)
  ELSE IF value.type = "NoneType" THEN << "N", "o", "n", "e" >>
  ELSE value.text
Falsy(value) ==
  \/ value.type = "NoneType"
  \/ value.type = "str" /\ value.text = << >>

(***************************************************************************)
(* Zid._toDatetime, lines 113-118.  The rendered string is a function of   *)
(* the second and of the nanosecond count printed after it; the model      *)
(* keeps these two as the datetime field.                                  *)
(***************************************************************************)
toDatetime(seconds, nanos) == [seconds |-> seconds, nanos |-> nanos]

(***************************************************************************)
(* Zid._secondsAndNanosToValue, lines 120-125.  randrange(start, stop)     *)
(* returns start plus a number the system's random source draws below      *)
(* stop - start; that draw is the parameter rnd.                           *)
(***************************************************************************)
RandBelow(n) == 0 .. (n - 1)
randrange(start, stop, rnd) == start + rnd

secondsAndNanosToValue_offByOne(seconds, nanos, rnd) ==
  LET nanos2 == nanos + NANOS_PER_SECOND * seconds
  IN  randrange(ZIDS_PER_NANO * (nanos2 + 1), ZIDS_PER_NANO * (nanos2 + 2), rnd)

secondsAndNanosToValue(seconds, nanos, rnd) ==
  LET nanos2 == nanos + NANOS_PER_SECOND * seconds
  IN  randrange(ZIDS_PER_NANO * nanos2, ZIDS_PER_NANO * (nanos2 + 1), rnd)

(***************************************************************************)
(* Zid._valueToZid, lines 127-138.  Every value the model passes is >= 0,  *)
(* as the assertion on line 128 asks.                                      *)
(***************************************************************************)
\* The loop over reversed(_DIGIT_ALPHABETS): k runs from the last alphabet
\* to the first; the result is the value left over and reversed_zid.
RECURSIVE valueToZidLoop(_, _, _)
valueToZidLoop(value, k, reversed_zid) ==
  IF k = 0 THEN [value |-> value, reversed_zid |-> reversed_zid]
  ELSE LET alphabet == DIGIT_ALPHABETS[k]
           index == value % Len(alphabet)
       IN  valueToZidLoop(value \div Len(alphabet), k - 1,
                          Append(reversed_zid, alphabet[index + 1]))

valueToZid_noReverse(value) ==
  LET r == valueToZidLoop(value, Len(DIGIT_ALPHABETS), << >>)
  IN  IF r.value # 0
        THEN [error |-> ValueError("Y10K bug", << >>), zid |-> << >>]
        ELSE [error |-> NoError, zid |-> r.reversed_zid]

valueToZid_wraps(value) ==
  LET r == valueToZidLoop(value, Len(DIGIT_ALPHABETS), << >>)
  IN  [error |-> NoError, zid |-> Reversed(r.reversed_zid)]

valueToZid(value) ==
  LET r == valueToZidLoop(value, Len(DIGIT_ALPHABETS), << >>)
  IN  IF r.value # 0
        THEN [error |-> ValueError("Y10K bug", << >>), zid |-> << >>]
        ELSE [error |-> NoError, zid |-> Reversed(r.reversed_zid)]

(***************************************************************************)
(* Zid._toInt, lines 140-147: zip stops at the shorter of the text and     *)
(* the alphabets; index raises ValueError for a character not in the       *)
(* position's alphabet.                                                    *)
(***************************************************************************)
RECURSIVE toIntLoop(_, _, _)
toIntLoop(zid, alphabets, value) ==
  IF zid = << >> \/ alphabets = << >> THEN [error |-> NoError, value |-> value]
  ELSE LET index == Index(Head(alphabets), Head(zid))
       IN  IF index < 0 THEN [error |-> ValueError("", << >>), value |-> 0]
           ELSE toIntLoop(Tail(zid), Tail(alphabets),
                          value * Len(Head(alphabets)) + index)

toInt(zid) == toIntLoop(zid, DIGIT_ALPHABETS, 0)

(***************************************************************************)
(* Zid.uuid, lines 149-154.                                                *)
(***************************************************************************)
uuid_noZfill(zid) ==
  LET bits == Bin(toInt(zid).value)
      value == SliceTo(bits, UUID_INDEX) \o UUID_BITS \o SliceFrom(bits, UUID_INDEX)
  IN  IntBase2(value)

uuid_markerOneZero(zid) ==
  LET bits == Zfill(Bin(toInt(zid).value), 0 - UUID_INDEX)
      value == SliceTo(bits, UUID_INDEX) \o << "1", "0" >> \o SliceFrom(bits, UUID_INDEX)
  IN  IntBase2(value)

uuid(zid) ==
  LET bits == Zfill(Bin(toInt(zid).value), 0 - UUID_INDEX)
      value == SliceTo(bits, UUID_INDEX) \o UUID_BITS \o SliceFrom(bits, UUID_INDEX)
  IN  IntBase2(value)

(***************************************************************************)
(* The constructors.  Each returns the object's fields, or the exception   *)
(* raised: [error, zid, datetime].                                         *)
(***************************************************************************)
Raised(error) == [error |-> error, zid |-> << >>, datetime |-> NoDatetime]

\* Zid._initFromZid, lines 99-111
initFromZid(zid) ==
  IF Len(zid) # Len(DIGIT_ALPHABETS) THEN Raised(ValueError("", << >>))
  ELSE LET v == toInt(zid)
       IN  IF v.error # NoError THEN Raised(v.error)
           ELSE LET count == v.value \div ZIDS_PER_NANO
                    seconds == (count \div NANOS_PER_SECOND) - SECONDS_BEFORE_EPOCH
                    nanos == count % NANOS_PER_SECOND
                IN  [error |-> NoError, zid |-> zid,
                     datetime |-> toDatetime(seconds, nanos)]

\* Zid._initFromUuid, lines 90-97
initFromUuid_noMarkerCheck(value) ==
  LET bits == Bin(value)
      intValue == IntBase2(SliceTo(bits, UUID_INDEX - 2) \o SliceFrom(bits, UUID_INDEX))
      z == valueToZid(intValue)
  IN  IF z.error # NoError THEN Raised(z.error) ELSE initFromZid(z.zid)

initFromUuid(value) ==
  LET bits == Bin(value)
  IN  IF Slice(bits, UUID_INDEX - 2, UUID_INDEX) # UUID_BITS
        THEN Raised(ValueError("", << >>))
        ELSE LET intValue ==
                   IntBase2(SliceTo(bits, UUID_INDEX - 2) \o SliceFrom(bits, UUID_INDEX))
                 z == valueToZid(intValue)
             IN  IF z.error # NoError THEN Raised(z.error) ELSE initFromZid(z.zid)

\* Zid._initNew, lines 78-88.  clock is what divmod(time.time(), 1) and the
\* rounding give: the whole second and round(fraction * _NANOS_PER_SECOND),
\* which is _NANOS_PER_SECOND itself for a fraction within half a nanosecond
\* of the next second.
initNew(clock, rnd) ==
  LET seconds == clock.seconds + SECONDS_BEFORE_EPOCH
      value == secondsAndNanosToValue(seconds, clock.nanos, rnd)
      z == valueToZid(value)
  IN  IF z.error # NoError THEN Raised(z.error)
      ELSE [error |-> NoError, zid |-> z.zid,
            datetime |-> toDatetime(clock.seconds, clock.nanos)]

\* Zid.__post_init__, lines 59-74
post_init(value, clock, rnd) ==
  IF Falsy(value) THEN initNew(clock, rnd)
  ELSE LET zid == Strip(Str(value))
           r == IF value.type = "UUID" THEN initFromUuid(value.int)
                ELSE initFromZid(zid)
       IN  IF r.error.exc = "ValueError"
             THEN Raised(ValueError("Invalid zid", zid))
             ELSE r

(***************************************************************************)
(* State.  One Zid object at a time: `value` is the argument its           *)
(* constructor was called with, `clock` and `rnd` what the constructor     *)
(* read from time.time() and from the random source (NoClock, NoSample     *)
(* when it read neither), `zid`, `datetime` the object's fields and        *)
(* `error` the exception the constructor raised instead.  `uuidView` is    *)
(* what the uuid accessor returned, and `copy` a second object built from  *)
(* the first one's text or uuid.  `made` counts the constructor calls.     *)
(***************************************************************************)
VARIABLES pc, value, clock, rnd, zid, datetime, error, uuidView, copy, made

vars == << pc, value, clock, rnd, zid, datetime, error, uuidView, copy, made >>

NoCopy == [via |-> "", error |-> NoError, zid |-> << >>, datetime |-> NoDatetime]

\* What time.time() may show: any second from 0001-01-01 to ClockOvershoot
\* seconds past 9999-12-31, counted from 1970, and any rounded nanosecond.
ClockReadings ==
  [seconds : (0 - SECONDS_BEFORE_EPOCH) ..
             (SECONDS_PER_DAY * DAYS_PER_9_999_YEARS - SECONDS_BEFORE_EPOCH
                - 1 + ClockOvershoot),
   nanos : 0 .. NANOS_PER_SECOND]

\* The texts of the right shape, one per value of the codec.
WellFormedTexts == { valueToZid(v).zid : v \in 0 .. (CARDINALITY - 1) }

\* The characters a caller may type: the alphabet, the separator, a
\* punctuation mark and a blank.
Chars == { ALPHANUMERIC[i] : i \in 1 .. Len(ALPHANUMERIC) } \cup { "_", "-", " " }

\* The strings a caller may pass: every well-formed text; each with one
\* character replaced, with its last character dropped, with a character
\* added, with a blank before or after it; the empty string and a blank.
TextInputs ==
  WellFormedTexts
    \cup { [t EXCEPT ![i] = c] : t \in WellFormedTexts,
                                 i \in 1 .. Len(DIGIT_ALPHABETS), c \in Chars }
    \cup { SubSeq(t, 1, Len(t) - 1) : t \in WellFormedTexts }
    \cup { Append(t, c) : t \in WellFormedTexts, c \in Chars }
    \cup { << " " >> \o t : t \in WellFormedTexts }
    \cup { << >>, << " " >> }

Init ==
  /\ pc = "unbuilt"
  /\ value = NoneValue
  /\ clock = NoClock
  /\ rnd = NoSample
  /\ zid = << >>
  /\ datetime = NoDatetime
  /\ error = NoError
  /\ uuidView = NoUuid
  /\ copy = NoCopy
  /\ made = 0

\* Zid(v) leaves the object o, or raises o.error.
Constructed(v, c, r, o) ==
  /\ made < MaxZids
  /\ made' = made + 1
  /\ value' = v
  /\ clock' = c
  /\ rnd' = r
  /\ pc' = IF o.error = NoError THEN "built" ELSE "raised"
  /\ zid' = o.zid
  /\ datetime' = o.datetime
  /\ error' = o.error
  /\ uuidView' = NoUuid
  /\ copy' = NoCopy

\* Zid(v): __post_init__ runs.
Construct(v, c, r) == Constructed(v, c, r, post_init(v, c, r))

\* Zid() for every reading and every draw, tabulated once.
Fresh ==
  [c \in ClockReadings, r \in RandBelow(ZIDS_PER_NANO) |-> post_init(NoneValue, c, r)]

\* Zid()
ZidNew ==
  \E c \in ClockReadings, r \in RandBelow(ZIDS_PER_NANO) :
    Constructed(NoneValue, c, r, Fresh[c, r])

\* Zid(text)
ZidFromText ==
  \E t \in TextInputs :
    IF Falsy(StrValue(t))
      THEN \E c \in ClockReadings, r \in RandBelow(ZIDS_PER_NANO) :
             Construct(StrValue(t), c, r)
      ELSE Construct(StrValue(t), NoClock, NoSample)

\* Zid(u) for a uuid.UUID u
ZidFromUuid ==
  \E u \in UuidInts : Construct(UuidValue(u), NoClock, NoSample)

\* z.uuid
GetUuid ==
  /\ pc = "built"
  /\ uuidView = NoUuid
  /\ copy = NoCopy
  /\ uuidView' = uuid(zid)
  /\ UNCHANGED << pc, value, clock, rnd, zid, datetime, error, copy, made >>

\* Zid(z.uuid)
CopyFromUuid ==
  /\ uuidView # NoUuid
  /\ copy = NoCopy
  /\ copy' = [via |-> "uuid"] @@ post_init(UuidValue(uuidView), NoClock, NoSample)
  /\ UNCHANGED << pc, value, clock, rnd, zid, datetime, error, uuidView, made >>

\* Zid(str(z))
CopyFromText ==
  /\ pc = "built"
  /\ uuidView = NoUuid
  /\ copy = NoCopy
  /\ copy' = [via |-> "text"] @@ post_init(StrValue(zid), NoClock, NoSample)
  /\ UNCHANGED << pc, value, clock, rnd, zid, datetime, error, uuidView, made >>

\* One object: it is constructed once and then only read.
Next ==
  \/ pc = "unbuilt" /\ ZidNew
  \/ pc = "unbuilt" /\ ZidFromText
  \/ pc = "unbuilt" /\ ZidFromUuid
  \/ GetUuid
  \/ CopyFromUuid
  \/ CopyFromText

Spec == Init /\ [][Next]_vars

\* One process that calls Zid() again and again.
NextSeq == ZidNew

SpecSeq == Init /\ [][NextSeq]_vars

(***************************************************************************)
(* What the properties speak of.                                           *)
(***************************************************************************)
AlphabetSet == { "0", "A", "a" }

\* A text of the fixed length with '_' closing the first and the second
\* group and a symbol of the alphabet everywhere else.
WellFormed(t) ==
  /\ Len(t) = 3 * GroupDigits + 2
  /\ \A i \in 1 .. Len(t) :
       IF i = GroupDigits + 1 \/ i = 2 * GroupDigits + 2
         THEN t[i] = "_"
         ELSE t[i] \in AlphabetSet

\* The object was made by the fresh path.
IsFresh == pc # "unbuilt" /\ Falsy(value)

\* The instant the fresh path used, in time units since 0001-01-01, and the
\* value it drew there.
Instant == (clock.seconds + SECONDS_BEFORE_EPOCH) * NANOS_PER_SECOND + clock.nanos
Sampled == ZIDS_PER_NANO * Instant + rnd

\* a < b for two str values: by code point, a proper prefix first
RECURSIVE StrLess(_, _)
StrLess(a, b) ==
  IF a = << >> THEN b # << >>
  ELSE IF b = << >> THEN FALSE
  ELSE IF Head(a) # Head(b) THEN Ord(Head(a)) < Ord(Head(b))
  ELSE StrLess(Tail(a), Tail(b))

IntOf(t) == toInt(t).value
Timestamp(t) == IntOf(t) \div ZIDS_PER_NANO

\* The marker bits of a UUID's integer and the integer left without them.
MarkerOf(u) == (u \div (2 ^ UuidLowBits)) % 4
PayloadOf(u) ==
  ((u \div (2 ^ (UuidLowBits + 2))) * (2 ^ UuidLowBits)) + (u % (2 ^ UuidLowBits))

\* The hex digit of a UUID whose two high bits are the marker bits (the 13th
\* of the source's 32: bits 76 to 79).
VersionNibble(u) == (u \div (2 ^ (UuidLowBits - 2))) % 16

(***************************************************************************)
(* C1.  The text codec is a bijection between the integers below           *)
(* CARDINALITY and the well-formed texts: every constructed Zid's text is  *)
(* well formed, decodes to an integer below CARDINALITY and is the         *)
(* encoding of that integer; the text made from a value v (the value the   *)
(* fresh path drew, the value a UUID carried) decodes to v; every          *)
(* well-formed text is accepted as it is; and parsing the text of a Zid    *)
(* yields an equal Zid.                                                    *)
(***************************************************************************)
C1_TextCodecBijection ==
  /\ pc = "built" =>
       /\ WellFormed(zid)
       /\ toInt(zid).error = NoError
       /\ IntOf(zid) \in 0 .. (CARDINALITY - 1)
       /\ valueToZid(IntOf(zid)) = [error |-> NoError, zid |-> zid]
  /\ (pc = "built" /\ IsFresh) => IntOf(zid) = Sampled
  /\ (pc = "built" /\ value.type = "UUID") => IntOf(zid) = PayloadOf(value.int)
  /\ (pc # "unbuilt" /\ value.type = "str" /\ WellFormed(value.text)) =>
       pc = "built" /\ zid = value.text
  /\ copy.via = "text" => copy.error = NoError /\ copy.zid = zid

C1_Witness ==
  /\ pc = "built"
  /\ value.type = "UUID"
  /\ IntOf(zid) = CARDINALITY - 1
  /\ copy.via = "text"

(***************************************************************************)
(* C2.  Round trip through UUID: the Zid constructed from z.uuid exists    *)
(* and has z's text, for every Zid z, also one whose value has fewer bits  *)
(* than lie below the marker.                                              *)
(***************************************************************************)
C2_UuidRoundTrip ==
  copy.via = "uuid" => copy.error = NoError /\ copy.zid = zid

C2_Witness ==
  /\ copy.via = "uuid"
  /\ IntOf(zid) > 0
  /\ Len(Bin(IntOf(zid))) < UuidLowBits

(***************************************************************************)
(* C3.  Order preservation: of two Zids generated one after the other, the *)
(* one generated at the earlier instant has the smaller integer and the    *)
(* smaller text, whatever the two draws; and for any two Zids the order of *)
(* the texts is the order of the integers.                                 *)
(***************************************************************************)
C3_OrderPreservation ==
  [][(pc = "built" /\ pc' = "built") =>
       LET a == IntOf(zid)
           b == IntOf(zid')
           before == StrLess(zid, zid')
       IN  /\ Instant < Instant' => (a < b /\ before)
           /\ Instant' < Instant => (b < a /\ StrLess(zid', zid))
           /\ before <=> a < b]_vars

C3_Witness ==
  /\ made >= 2
  /\ pc = "built"
  /\ IsFresh
  /\ Instant > 0
  /\ rnd = 0

(***************************************************************************)
(* C4.  Monotonic same-process generation: two Zids generated one after    *)
(* the other by one process never carry the same embedded timestamp.       *)
(***************************************************************************)
C4_DistinctTimestamps ==
  [][(pc = "built" /\ pc' = "built") => Timestamp(zid') # Timestamp(zid)]_vars

(***************************************************************************)
(* C5.  Malformed text is rejected: Zid(s) for a string s that is not a    *)
(* well-formed text raises ValueError('Invalid zid: ...') with the input,  *)
(* and no Zid is produced.                                                 *)
(***************************************************************************)
C5_MalformedTextRejected ==
  (pc # "unbuilt" /\ value.type = "str" /\ ~WellFormed(value.text)) =>
    /\ pc = "raised"
    /\ zid = << >>
    /\ error = ValueError("Invalid zid", Strip(value.text))

(***************************************************************************)
(* C6.  Timestamp recovery: the time-unit count recovered from a fresh     *)
(* Zid's text is the count it was generated at, and, when the nanoseconds  *)
(* read are below NANOS_PER_SECOND, the Zid parsed from that text has the  *)
(* fresh Zid's datetime.                                                   *)
(***************************************************************************)
C6_TimestampRecovery ==
  (pc = "built" /\ IsFresh) =>
    /\ Timestamp(zid) = Instant
    /\ (copy.via = "text" /\ clock.nanos < NANOS_PER_SECOND) =>
         copy.error = NoError /\ copy.datetime = datetime

C6_Witness ==
  /\ pc = "built"
  /\ IsFresh
  /\ copy.via = "text"
  /\ clock.seconds >= 0
  /\ clock.nanos > 0
  /\ clock.nanos < NANOS_PER_SECOND
  /\ rnd = ZIDS_PER_NANO - 1

C8_UuidRejection ==
  (pc # "unbuilt" /\ value.type = "UUID") =>
    /\ (MarkerOf(value.int) # 3 \/ PayloadOf(value.int) >= CARDINALITY) =>
         /\ pc = "raised"
         /\ zid = << >>
         /\ error.exc = "ValueError"
         /\ error.msg = "Invalid zid"
    /\ pc = "built" => uuid(zid) = value.int

C8_Witness ==
  /\ value.type = "UUID"
  /\ pc = "raised"
  /\ MarkerOf(value.int) = 3
  /\ PayloadOf(value.int) >= CARDINALITY

(***************************************************************************)
(* C9.  Range invariant: every Zid constructed, by any path, has a value   *)
(* below CARDINALITY and an embedded count below NANOS_PER_9_999_YEARS;    *)
(* a generation that draws CARDINALITY or more raises ValueError and       *)
(* leaves no Zid.                                                          *)
(***************************************************************************)
InRange(t) ==
  /\ toInt(t).error = NoError
  /\ IntOf(t) \in 0 .. (CARDINALITY - 1)
  /\ Timestamp(t) < NANOS_PER_9_999_YEARS

C9_RangeInvariant ==
  /\ pc = "built" => InRange(zid)
  /\ (copy.via # "" /\ copy.error = NoError) => InRange(copy.zid)
  /\ (IsFresh /\ Sampled >= CARDINALITY) =>
       /\ pc = "raised"
       /\ zid = << >>
       /\ error.exc = "ValueError"

C9_Witness ==
  /\ IsFresh
  /\ pc = "raised"
  /\ Sampled >= CARDINALITY
  /\ Instant < NANOS_PER_9_999_YEARS

(***************************************************************************)
(* C10.  Full coverage of the supported range: generation at any instant   *)
(* below NANOS_PER_9_999_YEARS draws a value below CARDINALITY and         *)
(* succeeds.                                                               *)
(***************************************************************************)
C10_FullCoverage ==
  (IsFresh /\ Instant < NANOS_PER_9_999_YEARS) =>
    Sampled < CARDINALITY /\ pc = "built"

====
